---------------------------- MODULE Spec2Model ----------------------------
(***************************************************************************)
(* Model of the Particles renderer: the main loop of main.cpp driving      *)
(* Renderer::handleInput and Renderer::render, the frame pacer, the buffer *)
(* rotation guarded by a GL fence, and the GPU command stream the compute  *)
(* dispatches are queued on.                                               *)
(*                                                                         *)
(* Time is counted in abstract ticks.  The steady clock is not kept as an  *)
(* absolute value: the model keeps the distances (clock - lastFrameTime)   *)
(* and (clock - lastMissedFrameReport), saturated just above the largest   *)
(* threshold they are compared with, so that runs are unbounded while the  *)
(* state space stays finite.  The clock is sampled on entry to render,     *)
(* after clock_nanosleep and after each sched_yield, so ticks are taken    *)
(* right before those samples: a tick anywhere else is indistinguishable   *)
(* from a tick before the next sample.  In the same way the GPU finishes   *)
(* a dispatch at the places where the frame can observe it.                *)
(***************************************************************************)
EXTENDS Integers, Sequences, FiniteSets

(***************************************************************************)
(* Program constants and model bounds.                                     *)
(***************************************************************************)
\* Renderer.h: static constexpr int NUM_BUFFERS = 3
NUM_BUFFERS == 3

\* targetFrameTime, spinThreshold and reportThreshold of Renderer::render,
\* scaled down to ticks; only their order matters to the pacer.
TargetFrameTime == 2
SpinThreshold == 1
ReportThreshold == 3

\* Most compute dispatches the GPU command stream holds unfinished.
MaxInFlight == 2
\* Saturation of the per-frame spin-iteration counter.
MaxSpins == 1
\* Most integration steps a slot's state is followed through.
MaxGeneration == 4

Slots == 0 .. (NUM_BUFFERS - 1)

\* Renderer.cpp:74  the numerator 1000000000.0f of the frame interval
NsPerSecond == 1000000000
\* Renderer.cpp:638  the rate returned when the display gives none
DefaultRefreshRate == 60

\* Renderer.cpp:409, ParticleSystem.cpp:26  the rate from which a display
\* gets the larger particle count
HighRefreshRate == 90
\* Renderer.cpp:49
BASE_PARTICLE_COUNT == 100000
\* ParticleSystem.cpp:7-8
HIGH_REFRESH_PARTICLE_COUNT == 400000
LOW_REFRESH_PARTICLE_COUNT == 25000

\* The two sizing rules of the repository.
GridRules == {"Renderer", "ParticleSystem"}
\* Results of the display query the sizing rules are run with.
SizingQueries == {0, 89, 90}

\* What the display query of getRefreshRate leaves in refreshRate on the
\* device the program runs on: 0 when the activity or its VM is missing or
\* the display reports no positive rate, else the rate in Hz.
RefreshQueries == {0, 90}

\* glGetUniformLocation gives -1 for a name that is no active uniform of
\* the program; -2 stands for the local when updateParticles is not running.
NoLocation == -1
DeadLocal == -2

\* The compute uniforms a linked program can lack.
UniformOutcomes == {{}, {"gravityPoint"}, {"deltaTime"}}

\* Renderer.h:80  the capacity the buffers were once sized for
MAX_PARTICLES == 100000

\* Renderer.cpp:577, ParticleSystem.cpp:75  the work-group size
WorkGroupSize == 256

\* Saturation points of the two clock distances.
FrameAgeCap == TargetFrameTime + 1
ReportAgeCap == ReportThreshold + 1

\* Surface sizes eglQuerySurface can report (width, height).
Sizes == {<<2, 1>>, <<1, 2>>}
NoSize == <<0, 0>>
UnsetSize == <<-1, -1>>

\* Outcomes of Shader::activate: it succeeds, it reports failure to the
\* caller (the bool tested in Renderer.cpp), or it throws (Shader.cpp).
ActivateOutcomes == {"ok", "false", "throw"}

Min(a, b) == IF a < b THEN a ELSE b

VARIABLES
    \* main loop (main.cpp)
    pc,                    \* position of the single control thread
    userData,              \* pApp->userData: "null" or "renderer"
    surface,               \* size of the window surface
    \* Renderer fields (Renderer.h)
    currentBufferIndex_,
    computeBufferIndex_,
    displayBufferIndex_,
    computeFence_,         \* TRUE iff computeFence_ != nullptr
    computeShader_,        \* TRUE iff the unique_ptr is non-null
    particleShader_,
    eglOk,                 \* display_, surface_ and context_ are valid
    size_,                 \* <<width_, height_>>
    projection_,           \* <<X scale, Y scale>> the particle shader holds
    numParticles_,
    buffersInitialized_,
    positionBuffers_,      \* per slot: pairs the store holds, and its data
    velocityBuffers_,
    initResult,            \* how the constructor's initialisation ended
    gravityPoint_,         \* <<x, y>> in world units
    teardown,              \* what the last ~Renderer found when it deleted
    \* function statics and locals of Renderer::render
    staticsInit,           \* the statics have been initialised (first call)
    frameAge,              \* clock - lastFrameTime, saturated
    reportAge,             \* clock - lastMissedFrameReport, saturated
    frameTime,             \* local frameTime = now - lastFrameTime, saturated
    targetFPS,             \* static targetFPS, 0 before the first call
    targetFrameTime,       \* static targetFrameTime in ns, 0 before it
    waitResult,            \* local waitResult of this frame, or "none"
    \* GPU command stream of the current context
    inflight,              \* target slots of the unfinished compute dispatches
    fenceBehind,           \* unfinished dispatches the fence still waits for
    liveFences,            \* sync objects created and not yet deleted
    \* history of the current frame and of the run
    trace,                 \* steps the current frame has performed, in order
    log,                   \* messages the current frame has written to aout
    slotState,             \* per slot: fate of the last dispatch that wrote it
    sinceCurrent,          \* per slot: rotations since it was last current
    sinceCompute,          \* per slot: rotations since it was last target
    missedOnEntry,         \* frameTime > targetFrameTime on entry to render
    slept,                 \* this frame called clock_nanosleep
    sleepNs,               \* the duration it asked for, 0 if it did not
    spins,                 \* spin iterations of this frame, saturated
    interval,              \* distance between the last two lastFrameTime
    sinceLog,              \* ticks since the last "Missed frame" log, -1 none
    lastGap,               \* ticks between the log just written and the one
                           \* before it, -1 none
    drawn,                 \* slot bound by the last glDrawArrays, -1 none
    copyCount,             \* pairs this frame's glCopyBufferSubData moved
    drawCount,             \* count this frame gave glDrawArrays, -1 none
    gravityLoc,            \* locals of updateParticles, as it left them
    deltaTimeLoc,
    \* the device
    displayRate,           \* what its display query gives
    pointer,               \* where its touch screen is touched, if at all
    \* locals of the sizing and placement code of initParticleSystem and of
    \* ParticleSystem::init / initializeParticles
    grid,
    \* the particle work of Renderer::render taken one whole frame at a time:
    \* the role indices, the fence, for each slot how many integration steps
    \* led to its state, and the same for the states the last draws showed
    sim,
    \* a ParticleSystem (ParticleSystem.h) with the device it runs on, the
    \* static of its update, what its last update bound and dispatched, and
    \* whether a render has followed it
    ps,
    \* the Renderer objects of android_main (main.cpp): pApp->userData, the
    \* local pRenderer, the objects constructed and not deleted, and where
    \* the loop stands, the parity of the polls and the object of the last frame
    life,
    \* one call of Renderer::handleInput: the motion events of the buffer,
    \* the loop index, width_ and height_, and the gravity point
    inputBuffer

app == <<pc, userData, surface>>
particles == <<numParticles_, buffersInitialized_, positionBuffers_,
               velocityBuffers_, initResult>>
rnd == <<currentBufferIndex_, computeBufferIndex_, displayBufferIndex_,
         computeFence_, computeShader_, particleShader_, eglOk, size_,
         projection_, particles>>
indices == <<currentBufferIndex_, computeBufferIndex_, displayBufferIndex_>>
shaders == <<computeShader_, particleShader_, eglOk>>
area == <<size_, projection_>>
statics == <<targetFPS, targetFrameTime>>
timing == <<staticsInit, frameAge, reportAge, frameTime, statics>>
gpu == <<inflight, fenceBehind, liveFences>>
pacerHist == <<missedOnEntry, slept, sleepNs, spins, interval, sinceLog,
               lastGap>>
rotHist == <<slotState, sinceCurrent, sinceCompute, drawn>>
frameHist == <<trace, log, waitResult>>
frameUse == <<copyCount, drawCount>>
locs == <<gravityLoc, deltaTimeLoc>>
session == <<gravityPoint_, teardown>>
program == <<app, rnd, timing, gpu, pacerHist, rotHist, frameHist, frameUse,
             locs, session, displayRate, pointer>>
fixed == <<grid, sim, ps, life, inputBuffer, displayRate, pointer>>
vars == <<program, grid, sim, ps, life, inputBuffer>>

(***************************************************************************)
(* Pure helpers, one per expression of the source.                         *)
(***************************************************************************)
\* Variant: the difference taken in an unsigned 8-bit duration.
SleepTime_Unsigned(ft) == (TargetFrameTime - ft) % 256

\* Renderer.cpp:84  sleepTime = targetFrameTime - frameTime (signed)
SleepTime(ft) == TargetFrameTime - ft

\* Variant: the fallback rate is 30 Hz.
GetRefreshRate_Default30(query) == IF query > 0 THEN query ELSE 30

\* Renderer.cpp:638  refreshRate > 0.0f ? refreshRate : 60.0f
GetRefreshRate(query) == IF query > 0 THEN query ELSE DefaultRefreshRate

\* Renderer.cpp:74  (long long)(1000000000.0f / targetFPS): the quotient of
\* two floats is rounded to the nearest float, which between 2^23 and 2^24
\* (rates of 60 to 119 Hz) is the nearest integer, and then truncated.
FrameInterval(fps) == (2 * NsPerSecond + fps) \div (2 * fps)

\* Renderer.cpp:87  frameTime > targetFrameTime
MissedFrame(ft) == ft > TargetFrameTime

\* Variant: the report is allowed as soon as the threshold is reached.
ShouldReport_AtThreshold(age) == age >= ReportThreshold

\* Renderer.cpp:89  currentTime - lastMissedFrameReport > reportThreshold
ShouldReport(age) == age > ReportThreshold

\* Renderer.cpp:101  sleepTime > spinThreshold
ShouldSleep(st) == st > SpinThreshold

\* Variant: the whole remaining time is requested.
SleepRequest_Whole(st) == st

\* Renderer.cpp:104  sleepNs = sleepTime - spinThreshold
SleepRequest(st) == st - SpinThreshold

\* Variant: the spin loop stops one guard band short of the deadline.
SpinContinue_GuardBand(ft) == ft < TargetFrameTime - SpinThreshold

\* Renderer.cpp:115  while (frameTime < targetFrameTime)
SpinContinue(ft) == ft < TargetFrameTime

\* Variant: the three assignments in another order (current first).
RotateIndices_CurrentFirst(cur, comp, disp) ==
    LET cur1 == disp
        disp1 == comp
        comp1 == cur1
    IN  <<cur1, comp1, disp1>>

\* Renderer.cpp:141-143  the three assignments that rotate the roles
RotateIndices(cur, comp, disp) ==
    LET disp1 == comp
        comp1 == cur
        cur1 == disp1
    IN  <<cur1, comp1, disp1>>

\* Renderer.cpp:133  glClientWaitSync: the fence is signaled once every
\* command issued before it has finished, else the bounded wait expires.
ClientWaitSync(behind) ==
    IF behind = 0 THEN "SIGNALED" ELSE "TIMEOUT_EXPIRED"

\* Variant: the fence is neither deleted nor reset after the wait.
ReleasedFence_Kept(fence) == fence

\* Renderer.cpp:137-138  glDeleteSync(computeFence_); computeFence_ = nullptr
ReleasedFence(fence) == FALSE

\* Variant: a timed-out wait skips the rest of the particle work.
AfterWait_SkipOnTimeout(result) ==
    IF result = "TIMEOUT_EXPIRED" THEN "present" ELSE "compute"

\* Renderer.cpp:134-144  whatever the wait returned, the frame goes on
AfterWait(result) == "compute"

\* Variant: the draw is issued before the fence is created.
NextStep_DrawFirst(step) ==
    CASE step = "compute" -> "draw"
      [] step = "draw" -> "mkfence"
      [] step = "mkfence" -> "present"

\* Renderer.cpp:147-153  updateParticles, glFenceSync, renderParticles, then
\* Renderer.cpp:156 eglSwapBuffers
NextStep(step) ==
    CASE step = "compute" -> "mkfence"
      [] step = "mkfence" -> "draw"
      [] step = "draw" -> "present"

\* Variant: the iteration renders first and handles the input afterwards.
IterationStep_RenderFirst(from) ==
    CASE from = "poll" -> "pace_entry"
      [] from = "render" -> "input"
      [] from = "input" -> "frame_end"

\* main.cpp:104-115  after the events: handleInput, render, and the
\* iteration is over
IterationStep(from) ==
    CASE from = "poll" -> "input"
      [] from = "input" -> "pace_entry"
      [] from = "render" -> "frame_end"

\* Variant: the fence is put in the command stream before the dispatch.
FenceCovers_BeforeDispatch(queue) ==
    IF Len(queue) > 0 THEN Len(queue) - 1 ELSE 0

\* Renderer.cpp:150  the new fence follows the dispatch in the command
\* stream, so it waits for every unfinished dispatch
FenceCovers(queue) == Len(queue)

\* Variant: the draw binds the VAO of the compute target.
DrawSlot_Target(cur, comp, disp) == comp

\* Renderer.cpp:602  glBindVertexArray(particleVAOs_[currentBufferIndex_])
DrawSlot(cur, comp, disp) == cur

Range(q) == {q[i] : i \in 1 .. Len(q)}

\* Variant: the gate tests the particle shader alone.
ShadersReady_ParticleOnly(compute, particle) == particle

\* Renderer.cpp:129  if (computeShader_ && particleShader_)
ShadersReady(compute, particle) == compute /\ particle

\* A buffer name without a data store.
NoBuffer == [pairs |-> 0, data |-> "none"]

\* Variant: only the first slot is given a store and the initial data.
InitialisedSlots_FirstOnly == {0}

\* Renderer.cpp:484 and 518  for (int i = 0; i < NUM_BUFFERS; i++)
InitialisedSlots == Slots

\* Renderer.cpp:487-492, 520-523: glBufferData and glBufferSubData give the
\* slot a store of n pairs holding the host vector; an allocation that
\* fails leaves the slot without a store, and the upload then has no effect.
Uploaded(s, n, failed) ==
    IF s \in InitialisedSlots /\ s \notin failed
    THEN [pairs |-> n, data |-> "initial"]
    ELSE NoBuffer

\* Renderer.cpp:557-578: the copy of n pairs from the current slot and the
\* dispatch rewrite the target; a copy larger than either store is rejected
\* by the GL and the target keeps what it has.
Stepped(src, dst, n) ==
    IF src.pairs >= n /\ dst.pairs >= n
    THEN [pairs |-> dst.pairs, data |-> "updated"]
    ELSE dst

\* Variant: the dispatch works on what the target already holds.
StepSource_InPlace(cur, comp) == comp

\* Renderer.cpp:554-562  GL_COPY_READ_BUFFER is the slot at
\* currentBufferIndex_: its contents are what the dispatch integrates.
StepSource(cur, comp) == cur

\* Renderer.cpp:557-578  after the copy and the dispatch the target holds
\* the state of the source, integrated once more.
OneStepFrom(gen, src, dst) == [gen EXCEPT ![dst] = gen[src] + 1]

\* Renderer.h:16-31  a new Renderer: roles 0, 1, 2, no fence, and every
\* slot with the initial state (Renderer.cpp:518-523); nothing drawn yet.
NewSim ==
    [cur |-> 0, comp |-> 1, disp |-> 2, fence |-> FALSE,
     gen |-> [s \in Slots |-> 0],
     did |-> {}, drawn |-> -1, drawnBefore |-> -1, before |-> FALSE]

\* main.cpp:70-79: no Renderer exists, userData is null (0), the loop polls;
\* the statics of render are not initialised.
NewLife ==
    [userData |-> 0, pRenderer |-> 0, ready |-> FALSE, live |-> {},
     created |-> 0, at |-> "poll", polls |-> 0, last |-> "none", ran |-> 0,
     staticsInit |-> FALSE, frameAge |-> 0, frameTime |-> 0, spins |-> 0]

\* ParticleSystem.h:23-33, ParticleSystem.cpp:67: a ParticleSystem of n
\* particles on a device with the given work-group limit, before any call.
NewParticleSystem(n, limit) ==
    [numParticles_ |-> n, limit |-> limit, currentBuffer_ |-> 0,
     maxWorkGroupSize |-> 0, numGroups |-> 0, read |-> -1, written |-> -1,
     awaitingRender |-> FALSE, drawCount |-> -1, rendererGroups |-> 0]

\* Variant: the draw uses the capacity constant.
DrawCount_Capacity(n) == MAX_PARTICLES

\* Renderer.cpp:605  glDrawArrays(GL_POINTS, 0, numParticles_)
DrawCount(n) == n

\* The allocations taken to be able to exhaust GPU memory: those of the
\* larger grid.
MayExhaustMemory(n) == n > BASE_PARTICLE_COUNT

\* The slot whose glBufferData fails when memory runs out.
FailingSlots == {1}

\* (int)sqrt(x) for the floats the sizing code takes the root of: the
\* largest integer whose square is at most n.
RECURSIVE SqrtSearch(_, _, _)
SqrtSearch(n, lo, hi) ==
    IF lo = hi THEN lo
    ELSE LET mid == (lo + hi + 1) \div 2
         IN  IF mid * mid <= n THEN SqrtSearch(n, mid, hi)
                               ELSE SqrtSearch(n, lo, mid - 1)

ISqrt(n) == SqrtSearch(n, 0, Min(n, 46340))

\* Renderer.cpp:409-412 and ParticleSystem.cpp:26: the count asked for.
RequestedCount(rule, rate) ==
    IF rule = "Renderer"
    THEN BASE_PARTICLE_COUNT * (IF rate >= HighRefreshRate THEN 2 ELSE 1)
    ELSE IF rate >= HighRefreshRate THEN HIGH_REFRESH_PARTICLE_COUNT
                                    ELSE LOW_REFRESH_PARTICLE_COUNT

\* Renderer.cpp:416, ParticleSystem.cpp:30
\* (int)sqrt(numParticles_ / aspectRatio), aspectRatio = 4.0f / 3.0f
ParticlesPerCol(n) == ISqrt((3 * n) \div 4)

\* Renderer.cpp:417, ParticleSystem.cpp:31  (int)(particlesPerCol *
\* aspectRatio): the float 4.0f / 3.0f lies just above 4/3, so a product that
\* is a whole number is never rounded below it.
ParticlesPerRow(perCol) == (4 * perCol) \div 3

\* Renderer.cpp:420, ParticleSystem.cpp:32
FinalCount(rule, rate) ==
    LET perCol == ParticlesPerCol(RequestedCount(rule, rate))
    IN  ParticlesPerRow(perCol) * perCol

\* Variant: the placement loop takes the row length from the root of
\* count / aspectRatio.
RowLength_FromCols(rule, n, perRow) ==
    IF rule = "Renderer" THEN perRow ELSE ISqrt((3 * n) \div 4)

\* The row length the placement loop divides by: the particlesPerRow of the
\* sizing (Renderer.cpp:447-448), or the one initializeParticles computes
\* anew as (int)sqrt(numParticles_ * aspectRatio) (ParticleSystem.cpp:113).
RowLength(rule, n, perRow) ==
    IF rule = "Renderer" THEN perRow ELSE ISqrt((4 * n) \div 3)

\* The locals after the sizing, before the first particle is placed.
SizedGrid(rule, query) ==
    LET rate == GetRefreshRate(query)
        perCol == ParticlesPerCol(RequestedCount(rule, rate))
        perRow == ParticlesPerRow(perCol)
    IN  [rule |-> rule, refreshRate |-> rate,
         numParticles |-> perRow * perCol,
         particlesPerRow |-> perRow, particlesPerCol |-> perCol,
         rowLength |-> RowLength(rule, perRow * perCol, perRow),
         i |-> 0, row |-> -1, col |-> -1]

\* No sizing is under way.
NoGrid ==
    [rule |-> "none", refreshRate |-> 0, numParticles |-> 0,
     particlesPerRow |-> 0, particlesPerCol |-> 0, rowLength |-> 0,
     i |-> 0, row |-> -1, col |-> -1]

\* No projection has been uploaded to the particle shader.
NoProjection == <<0, 0>>

\* Renderer.cpp:324  baseScale = 2.0f / 20.0f, in thousandths
BaseScale == 100

\* Renderer.h:23, Renderer.cpp:300-301  gravityPoint_{0.0f, 0.0f}
Origin == <<0, 0>>

\* The device delivers no motion events at all.
NoPointer == <<-1, -1>>

\* Screen positions of the pointer of a motion event.
Pointers == {<<0, 0>>}

\* Renderer.cpp:374-385  the masked actions the switch tells apart, and one
\* that falls to its default label.
Actions ==
    {"DOWN", "MOVE", "UP", "CANCEL", "POINTER_DOWN", "POINTER_UP",
     "HOVER_MOVE"}

\* android_app_swap_input_buffers gave no buffer, or one without motion
\* events (Renderer.cpp:347-352).
NoEvent == [action |-> "NONE", at |-> NoPointer]

\* What one call of handleInput can find in the input buffer.
MotionEvents(at) ==
    IF at = NoPointer THEN {NoEvent}
    ELSE {NoEvent} \cup [action : Actions, at : {at}]

\* A float that is infinite or not a number.
NotFinite == 1000000

\* a / b for the divisions of handleInput, all of which are exact here.
Quotient(a, b) ==
    CASE b > 0 -> a \div b
      [] b < 0 -> (0 - a) \div (0 - b)
      [] b = 0 -> NotFinite

\* Renderer.cpp:366-370  worldX = (x / width_ - 0.5f) * baseScale * aspect,
\* worldY = -((y / height_ - 0.5f) * baseScale), with baseScale 20 and
\* aspect = (float)width_ / height_.  A zero width_ or height_ makes
\* both coordinates infinite or NaN.
WorldPoint(at, size) ==
    LET x == at[1]
        y == at[2]
        w == size[1]
        h == size[2]
    IN  IF w = 0 \/ h = 0 THEN <<NotFinite, NotFinite>>
        ELSE <<Quotient((2 * x - w) * 10, h),
               0 - Quotient((2 * y - h) * 10, h)>>

\* Variant: every motion event moves the gravity point.
WritesGravity_Always(action) == TRUE

\* Renderer.cpp:372-377  case DOWN, case MOVE: gravityPoint_ = world point
WritesGravity(action) == action \in {"DOWN", "MOVE"}

\* The input buffer of a call of handleInput on a renderer of the given
\* size and gravity point, before the loop of Renderer.cpp:352.
NewInput(events, size, gravity) ==
    [motionEvents |-> events, i |-> 0, size_ |-> size,
     gravityPoint_ |-> gravity, entry |-> gravity, cleared |-> FALSE]

\* No call of handleInput is looked at.
NoInput == NewInput(<<>>, NoSize, Origin)

\* No renderer has been destroyed since the last one was created.
NoTeardown ==
    [done |-> FALSE, deleted |-> FALSE, pending |-> 0, fence |-> FALSE]

\* Renderer.cpp:51-56  ~Renderer reaches glDeleteBuffers and
\* glDeleteVertexArrays without a wait, a glFinish or a glDeleteSync before
\* them: the dispatches still in the queue and the fence are as the last
\* frame left them.
Destroyed(initialised, queue, fence) ==
    [done |-> TRUE, deleted |-> initialised, pending |-> Len(queue),
     fence |-> fence]

(***************************************************************************)
(* Initial state: android_main has entered its loop, no window yet.        *)
(***************************************************************************)
Boot ==
    /\ pc = "poll"
    /\ userData = "null"
    /\ surface = <<2, 1>>
    /\ currentBufferIndex_ = 0
    /\ computeBufferIndex_ = 1
    /\ displayBufferIndex_ = 2
    /\ computeFence_ = FALSE
    /\ computeShader_ = FALSE
    /\ particleShader_ = FALSE
    /\ eglOk = FALSE
    /\ size_ = NoSize
    /\ projection_ = NoProjection
    /\ numParticles_ = 0
    /\ buffersInitialized_ = FALSE
    /\ positionBuffers_ = [s \in Slots |-> NoBuffer]
    /\ velocityBuffers_ = [s \in Slots |-> NoBuffer]
    /\ initResult = "none"
    /\ staticsInit = FALSE
    /\ frameAge = 0
    /\ reportAge = 0
    /\ frameTime = 0
    /\ targetFPS = 0
    /\ targetFrameTime = 0
    /\ waitResult = "none"
    /\ inflight = <<>>
    /\ fenceBehind = 0
    /\ liveFences = 0
    /\ trace = <<>>
    /\ log = {}
    /\ slotState = [s \in Slots |-> "none"]
    /\ sinceCurrent = [s \in Slots |-> 0]
    /\ sinceCompute = [s \in Slots |-> 0]
    /\ missedOnEntry = FALSE
    /\ slept = FALSE
    /\ sleepNs = 0
    /\ spins = 0
    /\ interval = -1
    /\ sinceLog = -1
    /\ lastGap = -1
    /\ drawn = -1
    /\ copyCount = -1
    /\ drawCount = -1
    /\ gravityLoc = DeadLocal
    /\ deltaTimeLoc = DeadLocal
    /\ gravityPoint_ = Origin
    /\ teardown = NoTeardown

Init ==
    /\ Boot
    /\ grid = NoGrid
    /\ sim = NewSim
    /\ life = NewLife
    /\ inputBuffer = NoInput
    /\ ps = NewParticleSystem(0, 0)
    /\ displayRate \in RefreshQueries
    /\ pointer = NoPointer

(***************************************************************************)
(* main.cpp: handle_cmd and the loop of android_main.                      *)
(***************************************************************************)
\* Outcomes of Renderer::initRenderer (Renderer.cpp:161-305): EGL setup
\* fails, the device has no compute shaders, an asset or the particle shader
\* fails, the compute shader fails, everything succeeds, or everything but
\* an allocation of initParticleSystem does.
InitOutcomes ==
    {"egl_failed", "no_compute", "asset_failed", "compute_failed", "ok",
     "alloc_failed"}

\* APP_CMD_INIT_WINDOW: pApp->userData = new Renderer(pApp)
InitWindow ==
    /\ pc = "poll"
    /\ \E o \in InitOutcomes :
        LET n == FinalCount("Renderer", GetRefreshRate(displayRate))
            started == o \in {"ok", "alloc_failed"}
            failed == IF o = "alloc_failed" THEN FailingSlots ELSE {}
        IN  /\ o = "alloc_failed" => MayExhaustMemory(n)
            /\ eglOk' = (o # "egl_failed")
            /\ particleShader_' = (o \in {"compute_failed"} \/ started)
            /\ computeShader_' = started
            /\ size_' = IF o \in {"egl_failed", "no_compute"}
                        THEN NoSize ELSE UnsetSize
            /\ numParticles_' = IF started THEN n ELSE 0
            /\ buffersInitialized_' = started
            /\ positionBuffers_' =
                  [s \in Slots |-> IF started THEN Uploaded(s, n, failed)
                                             ELSE NoBuffer]
            /\ velocityBuffers_' =
                  [s \in Slots |-> IF started THEN Uploaded(s, n, failed)
                                             ELSE NoBuffer]
            /\ initResult' = o
    /\ userData' = "renderer"
    /\ currentBufferIndex_' = 0
    /\ computeBufferIndex_' = 1
    /\ displayBufferIndex_' = 2
    /\ computeFence_' = FALSE
    /\ projection_' = NoProjection
    /\ inflight' = <<>>
    /\ fenceBehind' = 0
    /\ liveFences' = 0
    /\ slotState' = [s \in Slots |-> "none"]
    /\ sinceCurrent' = [s \in Slots |-> 0]
    /\ sinceCompute' = [s \in Slots |-> 0]
    /\ drawn' = -1
    /\ trace' = <<>>
    /\ log' = {}
    /\ waitResult' = "none"
    /\ gravityPoint_' = Origin
    /\ teardown' = NoTeardown
    /\ UNCHANGED <<pc, surface, timing, pacerHist>>
    /\ UNCHANGED <<fixed, frameUse, locs>>

\* APP_CMD_TERM_WINDOW: userData = nullptr; delete pRenderer.  ~Renderer
\* deletes the buffers and destroys the context with all that is queued.
TermWindow ==
    /\ pc = "poll"
    /\ userData = "renderer"
    /\ userData' = "null"
    /\ currentBufferIndex_' = 0
    /\ computeBufferIndex_' = 1
    /\ displayBufferIndex_' = 2
    /\ computeFence_' = FALSE
    /\ computeShader_' = FALSE
    /\ particleShader_' = FALSE
    /\ eglOk' = FALSE
    /\ size_' = NoSize
    /\ projection_' = NoProjection
    /\ numParticles_' = 0
    /\ buffersInitialized_' = FALSE
    /\ positionBuffers_' = [s \in Slots |-> NoBuffer]
    /\ velocityBuffers_' = [s \in Slots |-> NoBuffer]
    /\ initResult' = "none"
    /\ inflight' = <<>>
    /\ fenceBehind' = 0
    /\ liveFences' = 0
    /\ slotState' = [s \in Slots |-> "none"]
    /\ sinceCurrent' = [s \in Slots |-> 0]
    /\ sinceCompute' = [s \in Slots |-> 0]
    /\ drawn' = -1
    /\ trace' = <<>>
    /\ log' = {}
    /\ waitResult' = "none"
    /\ gravityPoint_' = Origin
    /\ teardown' = Destroyed(buffersInitialized_, inflight, computeFence_)
    /\ UNCHANGED <<pc, surface, timing, pacerHist>>
    /\ UNCHANGED <<fixed, frameUse, locs>>

\* The window surface is resized between two frames.
Resize ==
    /\ pc = "poll"
    /\ \E s \in Sizes \ {surface} : surface' = s
    /\ UNCHANGED <<pc, userData, rnd, timing, gpu, pacerHist, rotHist,
                   frameHist>>
    /\ UNCHANGED <<fixed, session, frameUse, locs>>

\* ALooper_pollOnce returned TIMEOUT or WAKE and userData is set: the
\* iteration goes on to handleInput and render.
PollDone ==
    /\ pc = "poll"
    /\ userData = "renderer"
    /\ pc' = IterationStep("poll")
    /\ UNCHANGED <<userData, surface, rnd, timing, gpu, pacerHist, rotHist,
                   frameHist>>
    /\ UNCHANGED <<fixed, session, frameUse, locs>>

\* Renderer::handleInput
HandleInput ==
    /\ pc = "input"
    /\ \E ev \in MotionEvents(pointer) :
          gravityPoint_' = IF WritesGravity(ev.action)
                           THEN WorldPoint(ev.at, size_)
                           ELSE gravityPoint_
    /\ pc' = IterationStep("input")
    /\ UNCHANGED <<userData, surface, rnd, timing, gpu, pacerHist, rotHist,
                   frameHist, teardown>>
    /\ UNCHANGED <<fixed, frameUse, locs>>

\* The steady clock advances by one tick.
Tick ==
    /\ pc \in {"pace_entry", "sleeping", "yielding"}
    /\ staticsInit
    /\ \/ frameAge < FrameAgeCap
       \/ reportAge < ReportAgeCap
       \/ (sinceLog >= 0 /\ sinceLog < ReportAgeCap)
    /\ frameAge' = Min(frameAge + 1, FrameAgeCap)
    /\ reportAge' = Min(reportAge + 1, ReportAgeCap)
    /\ sinceLog' = IF sinceLog < 0 THEN -1 ELSE Min(sinceLog + 1, ReportAgeCap)
    /\ UNCHANGED <<app, rnd, staticsInit, statics, frameTime, gpu,
                   missedOnEntry, slept, sleepNs, spins, interval, lastGap,
                   rotHist, frameHist>>
    /\ UNCHANGED <<fixed, session, frameUse, locs>>

(***************************************************************************)
(* Renderer::render, step by step.                                         *)
(***************************************************************************)
\* Variant: the exception leaves android_main's loop.
Thrown_Uncaught == /\ pc' = "exited"
                   /\ log' = log \cup {"exception"}

\* An exception leaves render; the catch of android_main logs it and the
\* loop goes on with the next iteration (main.cpp:105-113).
Thrown == /\ pc' = "frame_end"
          /\ log' = log \cup {"exception"}

\* Renderer.cpp:73-101: first-call initialisation of the statics, the clock
\* sample, the missed-frame report and the decision to sleep.
PaceEntry ==
    /\ pc = "pace_entry"
    /\ LET age == IF staticsInit THEN frameAge ELSE 0
           rAge == IF staticsInit THEN reportAge ELSE 0
           missed == MissedFrame(age)
           report == missed /\ ShouldReport(rAge)
       IN  /\ staticsInit' = TRUE
           /\ IF staticsInit
              THEN UNCHANGED statics
              ELSE /\ targetFPS' = GetRefreshRate(displayRate)
                   /\ targetFrameTime' =
                           FrameInterval(GetRefreshRate(displayRate))
           /\ frameAge' = age
           /\ frameTime' = age
           /\ reportAge' = IF report THEN 0 ELSE rAge
           /\ sinceLog' = IF report THEN 0 ELSE sinceLog
           /\ lastGap' = IF report THEN sinceLog ELSE -1
           /\ log' = IF report THEN {"missed"} ELSE {}
           /\ missedOnEntry' = missed
           /\ slept' = ShouldSleep(SleepTime(age))
           /\ sleepNs' = IF ShouldSleep(SleepTime(age))
                         THEN SleepRequest(SleepTime(age))
                         ELSE 0
           /\ pc' = IF ShouldSleep(SleepTime(age)) THEN "sleeping"
                                                   ELSE "pace_spin"
    /\ spins' = 0
    /\ trace' = <<>>
    /\ waitResult' = "none"
    /\ UNCHANGED <<userData, surface, rnd, gpu, interval, rotHist>>
    /\ UNCHANGED <<fixed, session, frameUse, locs>>

\* Renderer.cpp:107-111: clock_nanosleep has returned (early, on time or
\* late); the clock is sampled again.
SleepReturn ==
    /\ pc = "sleeping"
    /\ frameTime' = frameAge
    /\ pc' = "pace_spin"
    /\ UNCHANGED <<userData, surface, rnd, staticsInit, statics, frameAge,
                   reportAge,
                   gpu, pacerHist, rotHist, frameHist>>
    /\ UNCHANGED <<fixed, session, frameUse, locs>>

\* Renderer.cpp:115-121: the loop test; on exit lastFrameTime = now.
SpinTest ==
    /\ pc = "pace_spin"
    /\ IF SpinContinue(frameTime)
       THEN /\ pc' = "yielding"
            /\ UNCHANGED <<frameAge, frameTime, interval, trace>>
       ELSE /\ pc' = "area"
            /\ interval' = frameAge
            /\ frameAge' = 0
            /\ frameTime' = 0
            /\ trace' = Append(trace, "pace")
    /\ UNCHANGED <<userData, surface, rnd, staticsInit, statics, reportAge, gpu,
                   missedOnEntry, slept, sleepNs, spins, sinceLog, lastGap,
                   rotHist,
                   log, waitResult>>
    /\ UNCHANGED <<fixed, session, frameUse, locs>>

\* Renderer.cpp:116-118: sched_yield has returned; the clock is sampled.
YieldReturn ==
    /\ pc = "yielding"
    /\ frameTime' = frameAge
    /\ spins' = Min(spins + 1, MaxSpins)
    /\ pc' = "pace_spin"
    /\ UNCHANGED <<userData, surface, rnd, staticsInit, statics, frameAge,
                   reportAge,
                   gpu, missedOnEntry, slept, sleepNs, interval, sinceLog,
                   lastGap,
                   rotHist, frameHist>>
    /\ UNCHANGED <<fixed, session, frameUse, locs>>

\* Variant: both axes get the base scale.
ProjectionMatrix_NoAspect(size) == <<BaseScale, BaseScale>>

\* Renderer.cpp:323-328  aspectRatio = (float)width_ / height_;
\* projectionMatrix[0] = baseScale / aspectRatio; projectionMatrix[5] =
\* baseScale.  Scales are in thousandths; a zero width_ or height_ gives
\* an X scale that is infinite or NaN.
ProjectionMatrix(size) ==
    LET w == size[1]
        h == size[2]
    IN  IF w = 0 \/ h = 0 THEN <<NotFinite, BaseScale>>
        ELSE <<Quotient(BaseScale * h, w), BaseScale>>

\* What eglQuerySurface leaves in the locals width and height
\* (Renderer.cpp:308-311): the surface size, or, when the query fails, the
\* indeterminate values of two uninitialised locals.
QueriedSizes == IF eglOk THEN {surface} ELSE Sizes \cup {NoSize}

\* Renderer::updateRenderArea (Renderer.cpp:307-344) and the clear
\* (Renderer.cpp:126-127).  The pacer's locals are dead from here on, and
\* the history of the pacing wait is dropped with them.
UpdateRenderArea ==
    /\ pc = "area"
    /\ \E q \in QueriedSizes, a \in ActivateOutcomes,
          p \in {"ok", "false", "throw"} :
        IF q = size_
        THEN /\ a = "ok" /\ p = "ok"
             /\ pc' = "fence"
             /\ trace' = Append(trace, "area")
             /\ UNCHANGED <<size_, projection_, log>>
        ELSE /\ size_' = q
             /\ IF ~particleShader_
                THEN /\ a = "ok" /\ p = "ok"
                     /\ pc' = "fence"
                     /\ trace' = Append(trace, "area")
                     /\ UNCHANGED <<projection_, log>>
                ELSE IF a = "throw" \/ p = "throw"
                THEN /\ a = "throw" => p = "ok"
                     /\ Thrown
                     /\ UNCHANGED <<projection_, trace>>
                ELSE /\ projection_' = IF p = "ok" THEN ProjectionMatrix(q)
                                                  ELSE projection_
                     /\ log' = IF p = "ok" THEN log
                               ELSE log \cup {"projection_failed"}
                     /\ pc' = "fence"
                     /\ trace' = Append(trace, "area")
    /\ missedOnEntry' = FALSE
    /\ slept' = FALSE
    /\ sleepNs' = 0
    /\ spins' = 0
    /\ interval' = -1
    /\ lastGap' = -1
    /\ UNCHANGED <<userData, surface, indices, computeFence_, shaders,
                   particles, timing, gpu, sinceLog, rotHist, waitResult>>
    /\ UNCHANGED <<fixed, session, frameUse, locs>>

\* Rotation counters kept for each slot.
Bump(since, now) ==
    [s \in Slots |-> IF s = now THEN 0 ELSE Min(since[s] + 1, NUM_BUFFERS)]

\* Renderer.cpp:129-144: the gate on both shaders, the bounded wait on the
\* previous frame's fence, its release and the rotation of the roles.
FenceStep ==
    /\ pc = "fence"
    /\ IF ~ShadersReady(computeShader_, particleShader_)
       THEN /\ pc' = "present"
            /\ UNCHANGED <<indices, computeFence_, gpu, rotHist, frameHist>>
       ELSE IF ~computeFence_
       THEN /\ pc' = "compute"
            /\ UNCHANGED <<indices, computeFence_, gpu, rotHist, frameHist>>
       ELSE LET result == ClientWaitSync(fenceBehind)
                rot == RotateIndices(currentBufferIndex_,
                                     computeBufferIndex_,
                                     displayBufferIndex_)
                kept == ReleasedFence(computeFence_)
            IN  /\ waitResult' = result
                /\ log' = IF result = "TIMEOUT_EXPIRED"
                          THEN log \cup {"timeout_warning"} ELSE log
                /\ computeFence_' = kept
                /\ liveFences' = IF kept THEN liveFences ELSE liveFences - 1
                /\ fenceBehind' = IF kept THEN fenceBehind ELSE 0
                /\ currentBufferIndex_' = rot[1]
                /\ computeBufferIndex_' = rot[2]
                /\ displayBufferIndex_' = rot[3]
                /\ slotState' = [s \in Slots |->
                                   IF slotState[s] = "unwaited"
                                   THEN result ELSE slotState[s]]
                /\ sinceCurrent' = Bump(sinceCurrent, rot[1])
                /\ sinceCompute' = Bump(sinceCompute, rot[2])
                /\ trace' = Append(trace, "wait")
                /\ pc' = AfterWait(result)
                /\ UNCHANGED <<inflight, drawn>>
    /\ UNCHANGED <<userData, surface, shaders, area, particles, timing,
                   pacerHist>>
    /\ UNCHANGED <<fixed, session, frameUse, locs>>

\* Renderer::updateParticles (Renderer.cpp:536-583): the return when there is
\* no compute shader, activation, the copy of the current slot into the
\* target, the dispatch on the target.
UpdateParticles ==
    /\ pc = "compute"
    /\ \E a \in IF computeShader_ THEN ActivateOutcomes ELSE {"none"} :
        CASE a = "none" ->
                /\ pc' = NextStep("compute")
                /\ UNCHANGED <<inflight, slotState, trace, log,
                               positionBuffers_, velocityBuffers_,
                               copyCount, locs>>
          [] a = "throw" ->
                /\ Thrown
                /\ UNCHANGED <<inflight, slotState, trace, positionBuffers_,
                               velocityBuffers_, copyCount, locs>>
          [] a = "false" ->
                /\ log' = log \cup {"activate_failed"}
                /\ pc' = NextStep("compute")
                /\ UNCHANGED <<inflight, slotState, trace, positionBuffers_,
                               velocityBuffers_, copyCount, locs>>
          [] a = "ok" ->
                /\ Len(inflight) < MaxInFlight
                /\ copyCount' = numParticles_
                /\ \E missing \in UniformOutcomes :
                      /\ gravityLoc' = IF "gravityPoint" \in missing
                                       THEN NoLocation ELSE 0
                      /\ deltaTimeLoc' = IF "deltaTime" \in missing
                                         THEN NoLocation ELSE 1
                /\ LET src == StepSource(currentBufferIndex_,
                                          computeBufferIndex_)
                       dst == computeBufferIndex_
                   IN  /\ positionBuffers_' =
                             [positionBuffers_ EXCEPT ![dst] =
                                 Stepped(positionBuffers_[src], @,
                                         numParticles_)]
                       /\ velocityBuffers_' =
                             [velocityBuffers_ EXCEPT ![dst] =
                                 Stepped(velocityBuffers_[src], @,
                                         numParticles_)]
                /\ inflight' = Append(inflight, computeBufferIndex_)
                /\ slotState' = [slotState EXCEPT
                                   ![computeBufferIndex_] = "unwaited"]
                /\ trace' = Append(trace, "dispatch")
                /\ pc' = NextStep("compute")
                /\ UNCHANGED log
    /\ UNCHANGED <<userData, surface, indices, computeFence_, shaders, area,
                   numParticles_, buffersInitialized_, initResult, timing,
                   fenceBehind, liveFences, pacerHist, sinceCurrent,
                   sinceCompute, drawn, waitResult, drawCount>>
    /\ UNCHANGED <<fixed, session>>

\* Renderer.cpp:150: computeFence_ = glFenceSync(...); updateParticles has
\* returned and its locals are gone.
CreateFence ==
    /\ pc = "mkfence"
    /\ gravityLoc' = DeadLocal
    /\ deltaTimeLoc' = DeadLocal
    /\ computeFence_' = TRUE
    /\ liveFences' = liveFences + 1
    /\ fenceBehind' = FenceCovers(inflight)
    /\ trace' = Append(trace, "fence")
    /\ pc' = NextStep("mkfence")
    /\ UNCHANGED <<userData, surface, indices, shaders, area, particles,
                   timing, inflight, pacerHist, rotHist, log, waitResult>>
    /\ UNCHANGED <<fixed, session, frameUse>>

\* Renderer::renderParticles (Renderer.cpp:585-608)
RenderParticles ==
    /\ pc = "draw"
    /\ \E a \in IF particleShader_ THEN ActivateOutcomes ELSE {"none"} :
        CASE a = "none" ->
                /\ pc' = NextStep("draw")
                /\ UNCHANGED <<drawn, trace, log, drawCount>>
          [] a = "throw" ->
                /\ Thrown
                /\ UNCHANGED <<drawn, trace, drawCount>>
          [] a = "false" ->
                /\ log' = log \cup {"activate_failed"}
                /\ pc' = NextStep("draw")
                /\ UNCHANGED <<drawn, trace, drawCount>>
          [] a = "ok" ->
                /\ drawn' = DrawSlot(currentBufferIndex_,
                                     computeBufferIndex_,
                                     displayBufferIndex_)
                /\ drawCount' = DrawCount(numParticles_)
                /\ trace' = Append(trace, "draw")
                /\ pc' = NextStep("draw")
                /\ UNCHANGED log
    /\ UNCHANGED <<userData, surface, rnd, timing, gpu, pacerHist,
                   slotState, sinceCurrent, sinceCompute, waitResult,
                   copyCount>>
    /\ UNCHANGED <<fixed, session, locs>>

\* Renderer.cpp:156-158: eglSwapBuffers, whose failure is only logged.
Present ==
    /\ pc = "present"
    /\ \E ok \in BOOLEAN :
        log' = IF ok /\ eglOk THEN log ELSE log \cup {"swap_failed"}
    /\ trace' = Append(trace, "present")
    /\ pc' = IterationStep("render")
    /\ UNCHANGED <<userData, surface, rnd, timing, gpu, pacerHist, rotHist,
                   waitResult>>
    /\ UNCHANGED <<fixed, session, frameUse, locs>>

\* main.cpp:115: the iteration is over and the loop starts the next one;
\* the locals of the frame and its history are gone.
EndIteration ==
    /\ pc = "frame_end"
    /\ pc' = "poll"
    /\ trace' = <<>>
    /\ log' = {}
    /\ waitResult' = "none"
    /\ drawn' = -1
    /\ copyCount' = -1
    /\ drawCount' = -1
    /\ gravityLoc' = DeadLocal
    /\ deltaTimeLoc' = DeadLocal
    /\ UNCHANGED <<userData, surface, rnd, timing, gpu, pacerHist, slotState,
                   sinceCurrent, sinceCompute>>
    /\ UNCHANGED <<fixed, session>>

\* A device whose touch screen delivers motion events.
InputInit ==
    /\ Boot
    /\ grid = NoGrid
    /\ sim = NewSim
    /\ life = NewLife
    /\ inputBuffer = NoInput
    /\ ps = NewParticleSystem(0, 0)
    /\ displayRate = 0
    /\ pointer \in Pointers

\* The GPU finishes the oldest unfinished compute dispatch.
GpuComplete ==
    /\ pc \in {"fence", "compute", "draw"}
    /\ inflight # <<>>
    /\ inflight' = Tail(inflight)
    /\ fenceBehind' = IF fenceBehind > 0 THEN fenceBehind - 1 ELSE 0
    /\ UNCHANGED <<app, rnd, timing, liveFences, pacerHist, rotHist,
                   frameHist>>
    /\ UNCHANGED <<fixed, session, frameUse, locs>>

Next ==
    \/ InitWindow
    \/ TermWindow
    \/ Resize
    \/ PollDone
    \/ HandleInput
    \/ Tick
    \/ PaceEntry
    \/ SleepReturn
    \/ SpinTest
    \/ YieldReturn
    \/ UpdateRenderArea
    \/ FenceStep
    \/ UpdateParticles
    \/ CreateFence
    \/ RenderParticles
    \/ Present
    \/ EndIteration
    \/ GpuComplete

Spec == Init /\ [][Next]_vars

\* The same program on a device whose touch screen is in use.
InputSpec == InputInit /\ [][Next]_vars

(***************************************************************************)
(* The sizing of the particle grid and the placement loop, run on their    *)
(* own for each rule and each result of the display query.                 *)
(***************************************************************************)
SizingInit ==
    /\ Boot
    /\ \E rule \in GridRules, query \in SizingQueries :
          grid = SizedGrid(rule, query)
    /\ sim = NewSim
    /\ life = NewLife
    /\ inputBuffer = NoInput
    /\ ps = NewParticleSystem(0, 0)
    /\ displayRate = 0
    /\ pointer = NoPointer

\* Renderer.cpp:446-448, ParticleSystem.cpp:114-116: one turn of the loop
\* for (i = 0; i < numParticles_; i++) { row = i / particlesPerRow; ... }
PlaceParticle ==
    /\ grid.i < grid.numParticles
    /\ grid' = [grid EXCEPT !.row = grid.i \div grid.rowLength,
                            !.col = grid.i % grid.rowLength,
                            !.i = grid.i + 1]
    /\ UNCHANGED <<program, sim, ps, life, inputBuffer>>

SizingNext == PlaceParticle

SizingSpec == SizingInit /\ [][SizingNext]_vars

(***************************************************************************)
(* The particle work of Renderer::render on a renderer whose                *)
(* initialisation succeeded, one whole frame at a time, with the number of  *)
(* integration steps that led to each slot's state.                         *)
(***************************************************************************)
FrameInit ==
    /\ Boot
    /\ grid = NoGrid
    /\ displayRate = 0
    /\ pointer = NoPointer
    /\ sim = NewSim
    /\ life = NewLife
    /\ inputBuffer = NoInput
    /\ ps = NewParticleSystem(0, 0)

\* One call of Renderer::render (Renderer.cpp:121-159) with
\* updateParticles (536-583) and renderParticles (585-608): an exception
\* in updateRenderArea ends the frame before the particle work; else the
\* wait with the rotation when there is a fence, the copy and the dispatch
\* when the compute shader activates, the new fence, and the draw when the
\* particle shader activates.
RenderFrame ==
    /\ \E ura \in {"ok", "throw"}, u \in ActivateOutcomes,
          r \in ActivateOutcomes :
        LET waited == sim.fence
            rot == IF waited
                   THEN RotateIndices(sim.cur, sim.comp, sim.disp)
                   ELSE <<sim.cur, sim.comp, sim.disp>>
            released == IF waited THEN ReleasedFence(sim.fence)
                                  ELSE sim.fence
            dispatched == u = "ok"
            src == StepSource(rot[1], rot[2])
            stepped == IF dispatched
                       THEN OneStepFrom(sim.gen, src, rot[2])
                       ELSE sim.gen
            fenced == u # "throw"
            drew == fenced /\ r = "ok"
            slot == DrawSlot(rot[1], rot[2], rot[3])
            before == {"dispatch", "draw"} \subseteq sim.did
        IN  IF ura = "throw"
            THEN /\ u = "ok" /\ r = "ok"
                 /\ sim' = [sim EXCEPT !.did = {}, !.before = before]
            ELSE /\ dispatched => sim.gen[src] < MaxGeneration
                 /\ sim' =
                      [cur |-> rot[1], comp |-> rot[2], disp |-> rot[3],
                       fence |-> IF fenced THEN TRUE ELSE released,
                       gen |-> stepped,
                       did |-> (IF waited THEN {"wait"} ELSE {})
                            \cup (IF dispatched THEN {"dispatch"} ELSE {})
                            \cup (IF fenced THEN {"fence"} ELSE {})
                            \cup (IF drew THEN {"draw"} ELSE {}),
                       drawn |-> IF drew THEN stepped[slot]
                                         ELSE sim.drawn,
                       drawnBefore |-> IF drew THEN sim.drawn
                                               ELSE sim.drawnBefore,
                       before |-> before]
    /\ UNCHANGED <<program, grid, ps, life, inputBuffer>>

FrameNext == RenderFrame

FrameSpec == FrameInit /\ [][FrameNext]_vars

(***************************************************************************)
(* ParticleSystem: update and render called in any order on a system of    *)
(* any size, on devices with different work-group limits; and the group    *)
(* count of Renderer::updateParticles for the same number of particles.    *)
(***************************************************************************)
\* Numbers of particles a ParticleSystem is built for.
ParticleCounts ==
    (1 .. 40) \cup {255, 256, 257, 511, 512, 513}
        \cup {FinalCount(rule, rate) :
                 rule \in GridRules, rate \in {DefaultRefreshRate,
                                               HighRefreshRate}}

\* What glGetIntegeri_v(GL_MAX_COMPUTE_WORK_GROUP_SIZE, 0) reports.
WorkGroupLimits == {1, 2, 3, 4, 7, 8, 100, 128, 255, 256, 257, 512, 1024}

\* ParticleSystem.cpp:52  int nextBuffer = 1 - currentBuffer_
NextBuffer(current) == 1 - current

\* ParticleSystem.h:36  void swapBuffers() { currentBuffer_ = 1 -
\* currentBuffer_; }
SwapBuffers(current) == 1 - current

\* ParticleSystem.cpp:76-78  while (maxWorkGroupSize > workGroupSizes[0])
\* maxWorkGroupSize >>= 1
RECURSIVE Halved(_, _)
Halved(size, limit) ==
    IF size > limit THEN Halved(size \div 2, limit) ELSE size

\* ParticleSystem.cpp:75-78  start with the ideal size, halve while it is
\* above the limit
SelectedGroupSize(limit) == Halved(WorkGroupSize, limit)

\* Variant: the division without the rounding term.
NumGroups_RoundedDown(n, size) == n \div size

\* ParticleSystem.cpp:81  (numParticles_ + maxWorkGroupSize - 1) /
\* maxWorkGroupSize, and Renderer.cpp:577 with 256 for the size
NumGroups(n, size) == (n + size - 1) \div size

ParticleInit ==
    /\ Boot
    /\ grid = NoGrid
    /\ sim = NewSim
    /\ life = NewLife
    /\ inputBuffer = NoInput
    /\ displayRate = 0
    /\ pointer = NoPointer
    /\ \E n \in ParticleCounts, limit \in WorkGroupLimits :
          ps = NewParticleSystem(n, limit)

\* ParticleSystem::update (ParticleSystem.cpp:46-89)
Update ==
    /\ \E a \in {"none", "throw", "ok"} :
        LET nextBuffer == NextBuffer(ps.currentBuffer_)
            size == IF ps.maxWorkGroupSize = 0
                    THEN SelectedGroupSize(ps.limit)
                    ELSE ps.maxWorkGroupSize
        IN  ps' = IF a = "ok"
                  THEN [ps EXCEPT
                          !.read = ps.currentBuffer_,
                          !.written = nextBuffer,
                          !.maxWorkGroupSize = size,
                          !.numGroups = NumGroups(ps.numParticles_, size),
                          !.currentBuffer_ = SwapBuffers(ps.currentBuffer_),
                          !.awaitingRender = TRUE]
                  ELSE ps
    /\ UNCHANGED <<program, grid, sim, life, inputBuffer>>

\* ParticleSystem::render (ParticleSystem.cpp:91-100)
Render ==
    /\ \E a \in {"none", "throw", "ok"} :
        ps' = IF a = "ok"
              THEN [ps EXCEPT !.drawCount = ps.numParticles_,
                              !.awaitingRender = FALSE]
              ELSE ps
    /\ UNCHANGED <<program, grid, sim, life, inputBuffer>>

\* Renderer.cpp:576-578  int numGroups = (numParticles_ + 255) / 256
DispatchCompute ==
    /\ ps.rendererGroups = 0
    /\ ps' = [ps EXCEPT
                 !.rendererGroups = NumGroups(ps.numParticles_, WorkGroupSize)]
    /\ UNCHANGED <<program, grid, sim, life, inputBuffer>>

ParticleNext ==
    \/ Update
    \/ Render
    \/ DispatchCompute

ParticleSpec == ParticleInit /\ [][ParticleNext]_vars

(***************************************************************************)
(* The Renderer objects of android_main and handle_cmd (main.cpp).  Objects *)
(* are numbered in the order of their construction; 0 is the null pointer.  *)
(***************************************************************************)
\* Renderers constructed in one run.
MaxRenderers == 3

\* main.cpp:86-101: what ALooper_pollOnce returns when no command is handled.
PollResults == {"TIMEOUT", "WAKE", "ERROR"}

\* Variant: no result ends the inner loop.
PollEnds_Never(result) == FALSE

\* main.cpp:90-93  case ALOOPER_POLL_TIMEOUT: case ALOOPER_POLL_WAKE:
\* done = true
PollEnds(result) == result \in {"TIMEOUT", "WAKE"}

LifeInit ==
    /\ Boot
    /\ grid = NoGrid
    /\ displayRate = 0
    /\ pointer = NoPointer
    /\ sim = NewSim
    /\ ps = NewParticleSystem(0, 0)
    /\ life = NewLife
    /\ inputBuffer = NoInput

\* main.cpp:20-30, 97-101  a poll delivers APP_CMD_INIT_WINDOW: userData =
\* new Renderer(pApp), with both shaders or without; a constructor that
\* throws leaves userData as it was.
OnInitWindow ==
    /\ life.at = "poll"
    /\ life.created < MaxRenderers
    /\ \E o \in {"ok", "no_shaders", "throw"} :
          life' = IF o = "throw"
                  THEN [life EXCEPT !.polls = 1 - @, !.last = "EVENT"]
                  ELSE [life EXCEPT !.userData = life.created + 1,
                                    !.ready = (o = "ok"),
                                    !.live = @ \cup {life.created + 1},
                                    !.created = @ + 1,
                                    !.polls = 1 - @,
                                    !.last = "EVENT"]
    /\ UNCHANGED <<program, grid, sim, ps, inputBuffer>>

\* main.cpp:32-37, 97-101  a poll delivers APP_CMD_TERM_WINDOW: pRenderer =
\* userData; userData = nullptr.
OnTermWindow ==
    /\ life.at = "poll"
    /\ life' = IF life.userData # 0
               THEN [life EXCEPT !.pRenderer = life.userData,
                                 !.userData = 0,
                                 !.ready = FALSE,
                                 !.at = "delete",
                                 !.polls = 1 - @,
                                 !.last = "EVENT"]
               ELSE [life EXCEPT !.polls = 1 - @, !.last = "EVENT"]
    /\ UNCHANGED <<program, grid, sim, ps, inputBuffer>>

\* main.cpp:38  delete pRenderer
DeleteRenderer ==
    /\ life.at = "delete"
    /\ life' = [life EXCEPT !.live = @ \ {life.pRenderer},
                            !.pRenderer = 0,
                            !.at = "poll"]
    /\ UNCHANGED <<program, grid, sim, ps, inputBuffer>>

\* main.cpp:81-96  one ALooper_pollOnce without a command: a timeout or a
\* wake ends the inner loop, an error is logged and the loop polls again.
PollOnce ==
    /\ life.at = "poll"
    /\ \E result \in PollResults :
          life' = [life EXCEPT !.polls = 1 - @,
                               !.last = result,
                               !.at = IF PollEnds(result) THEN "polled"
                                                          ELSE "poll"]
    /\ UNCHANGED <<program, grid, sim, ps, inputBuffer>>

\* main.cpp:104-106  if (pApp->userData) { pRenderer = userData; ... }
EnterFrame ==
    /\ life.at = "polled"
    /\ life' = IF life.userData # 0
               THEN [life EXCEPT !.pRenderer = life.userData, !.at = "input"]
               ELSE [life EXCEPT !.at = "poll"]
    /\ UNCHANGED <<program, grid, sim, ps, inputBuffer>>

\* main.cpp:107, 110-114  pRenderer->handleInput(); an exception is caught.
LoopHandleInput ==
    /\ life.at = "input"
    /\ \E o \in {"ok", "throw"} :
          life' = [life EXCEPT !.at = IF o = "ok" THEN "pace_entry"
                                                  ELSE "caught"]
    /\ UNCHANGED <<program, grid, sim, ps, inputBuffer>>

\* The steady clock advances by one tick while render is pacing.
LoopTick ==
    /\ life.at \in {"pace_entry", "sleeping", "yielding"}
    /\ life.staticsInit
    /\ life.frameAge < FrameAgeCap
    /\ life' = [life EXCEPT !.frameAge = @ + 1]
    /\ UNCHANGED <<program, grid, sim, ps, inputBuffer>>

\* Renderer.cpp:73-112  render: the statics on the first call, the clock
\* sample and the decision to sleep.
LoopPaceEntry ==
    /\ life.at = "pace_entry"
    /\ LET age == IF life.staticsInit THEN life.frameAge ELSE 0
       IN  life' = [life EXCEPT !.staticsInit = TRUE,
                                !.frameAge = age,
                                !.frameTime = age,
                                !.spins = 0,
                                !.at = IF ShouldSleep(SleepTime(age))
                                       THEN "sleeping" ELSE "pace_spin"]
    /\ UNCHANGED <<program, grid, sim, ps, inputBuffer>>

\* Renderer.cpp:107-111  clock_nanosleep has returned; the clock is read.
LoopSleepReturn ==
    /\ life.at = "sleeping"
    /\ life' = [life EXCEPT !.frameTime = life.frameAge, !.at = "pace_spin"]
    /\ UNCHANGED <<program, grid, sim, ps, inputBuffer>>

\* Renderer.cpp:115-121  the test of the yield loop; lastFrameTime = now.
LoopSpinTest ==
    /\ life.at = "pace_spin"
    /\ life' = IF SpinContinue(life.frameTime)
               THEN [life EXCEPT !.at = "yielding"]
               ELSE [life EXCEPT !.at = "area", !.frameAge = 0,
                                 !.frameTime = 0]
    /\ UNCHANGED <<program, grid, sim, ps, inputBuffer>>

\* Renderer.cpp:116-118  sched_yield(); the clock is read again.
LoopYieldReturn ==
    /\ life.at = "yielding"
    /\ life' = [life EXCEPT !.frameTime = life.frameAge,
                            !.spins = Min(@ + 1, MaxSpins),
                            !.at = "pace_spin"]
    /\ UNCHANGED <<program, grid, sim, ps, inputBuffer>>

\* Renderer.cpp:123  updateRenderArea(), whose upload of the projection may
\* throw (Shader.cpp:193, 206).
LoopUpdateRenderArea ==
    /\ life.at = "area"
    /\ \E o \in {"ok", "throw"} :
          life' = [life EXCEPT !.at = IF o = "ok" THEN "body" ELSE "caught"]
    /\ UNCHANGED <<program, grid, sim, ps, inputBuffer>>

\* Renderer.cpp:126-154  with both shaders: the bounded fence wait, which
\* returns, updateParticles, the new fence and renderParticles; an
\* activation that throws (Shader.cpp:140, 148) leaves render.
LoopRenderBody ==
    /\ life.at = "body"
    /\ \E u \in ActivateOutcomes, r \in ActivateOutcomes :
          life' = [life EXCEPT !.at = IF life.ready /\ "throw" \in {u, r}
                                      THEN "caught" ELSE "present"]
    /\ UNCHANGED <<program, grid, sim, ps, inputBuffer>>

\* Renderer.cpp:156-158  eglSwapBuffers; render returns.
LoopPresent ==
    /\ life.at = "present"
    /\ life' = [life EXCEPT !.at = "poll", !.pRenderer = 0,
                            !.ran = life.pRenderer]
    /\ UNCHANGED <<program, grid, sim, ps, inputBuffer>>

\* main.cpp:110-114  the exception is logged and the iteration ends.
LoopCatch ==
    /\ life.at = "caught"
    /\ life' = [life EXCEPT !.at = "poll", !.pRenderer = 0]
    /\ UNCHANGED <<program, grid, sim, ps, inputBuffer>>

\* What the control thread does by itself once a poll has returned.
LoopStep ==
    \/ DeleteRenderer
    \/ EnterFrame
    \/ LoopHandleInput
    \/ LoopPaceEntry
    \/ LoopSleepReturn
    \/ LoopSpinTest
    \/ LoopYieldReturn
    \/ LoopUpdateRenderArea
    \/ LoopRenderBody
    \/ LoopPresent
    \/ LoopCatch

LifeNext ==
    \/ OnInitWindow
    \/ OnTermWindow
    \/ PollOnce
    \/ LoopTick
    \/ LoopStep

LifeSpec == LifeInit /\ [][LifeNext]_vars

\* The thread keeps running, every ALooper_pollOnce with a zero timeout
\* returns, and the steady clock advances.
LiveSpec ==
    /\ LifeSpec
    /\ WF_vars(LoopStep)
    /\ WF_vars(OnInitWindow \/ OnTermWindow \/ PollOnce)
    /\ SF_vars(LoopTick)

(***************************************************************************)
(* Renderer::handleInput on one input buffer, event by event.              *)
(***************************************************************************)
\* Motion events in one input buffer.
MaxBatch == 2

\* Screen positions of the pointers of the events, in pixels.
TouchPoints == {<<0, 0>>, <<1, 1>>, <<2, 1>>}

\* The buffers android_app_swap_input_buffers can return; none at all is
\* the empty one.
InputBuffers ==
    UNION {[1 .. n -> [action : Actions, at : TouchPoints]] :
              n \in 0 .. MaxBatch}

BatchInit ==
    /\ Boot
    /\ grid = NoGrid
    /\ displayRate = 0
    /\ pointer = NoPointer
    /\ sim = NewSim
    /\ ps = NewParticleSystem(0, 0)
    /\ life = NewLife
    /\ \E events \in InputBuffers, size \in Sizes,
          gravity \in {Origin, <<20, 10>>} :
          inputBuffer = NewInput(events, size, gravity)

\* Renderer.cpp:352-396  one iteration of the loop over the motion events.
HandleMotionEvent ==
    /\ inputBuffer.i < Len(inputBuffer.motionEvents)
    /\ LET motionEvent == inputBuffer.motionEvents[inputBuffer.i + 1]
       IN  inputBuffer' =
             [inputBuffer EXCEPT
                !.i = @ + 1,
                !.gravityPoint_ =
                    IF WritesGravity(motionEvent.action)
                    THEN WorldPoint(motionEvent.at, inputBuffer.size_)
                    ELSE @]
    /\ UNCHANGED <<program, grid, sim, ps, life>>

\* Renderer.cpp:398-399  android_app_clear_motion_events after the loop.
ClearMotionEvents ==
    /\ inputBuffer.i = Len(inputBuffer.motionEvents)
    /\ ~inputBuffer.cleared
    /\ inputBuffer' = [inputBuffer EXCEPT !.cleared = TRUE]
    /\ UNCHANGED <<program, grid, sim, ps, life>>

BatchNext ==
    \/ HandleMotionEvent
    \/ ClearMotionEvents

BatchSpec == BatchInit /\ [][BatchNext]_vars

(***************************************************************************)
(* Properties.                                                             *)
(***************************************************************************)
Steps == Range(trace)

\* C1: the slot the render stage binds is never the slot the compute
\* dispatch targets: currentBufferIndex_ differs from computeBufferIndex_ in
\* every state, and so does the slot a frame has drawn.
C1_RenderNeverBindsTarget ==
    /\ currentBufferIndex_ # computeBufferIndex_
    /\ drawn # -1 => drawn # computeBufferIndex_

\* A frame whose fence wait timed out has dispatched and drawn.
C1_Witness ==
    /\ waitResult = "TIMEOUT_EXPIRED"
    /\ "dispatch" \in Steps
    /\ drawn = currentBufferIndex_

C3_TimeoutProceeds ==
    /\ [][(pc = "fence" /\ waitResult' # "none") =>
            /\ waitResult' = "TIMEOUT_EXPIRED" => "timeout_warning" \in log'
            /\ ~computeFence_'
            /\ liveFences' = liveFences - 1
            /\ indices' = <<computeBufferIndex_, currentBufferIndex_,
                            computeBufferIndex_>>
            /\ pc' = "compute"]_vars
    /\ []((pc = "frame_end" /\ waitResult = "TIMEOUT_EXPIRED"
              /\ "exception" \notin log) =>
            /\ "fence" \in Steps
            /\ "present" \in Steps
            /\ "activate_failed" \notin log =>
                  ("dispatch" \in Steps /\ "draw" \in Steps))

\* A frame whose wait timed out has run to the end with every step.
C3_Witness ==
    /\ pc = "frame_end"
    /\ waitResult = "TIMEOUT_EXPIRED"
    /\ "timeout_warning" \in log
    /\ {"dispatch", "fence", "draw", "present"} \subseteq Steps

\* C4: at most one fence exists at any time, and computeFence_ is null
\* whenever glFenceSync is about to be called.
C4_OneFence ==
    /\ liveFences <= 1
    /\ computeFence_ <=> liveFences = 1
    /\ pc = "mkfence" => ~computeFence_

\* glFenceSync is about to be called in a frame that deleted a fence.
C4_Witness ==
    /\ pc = "mkfence"
    /\ waitResult # "none"
    /\ liveFences = 0

\* Order of the steps of a frame as the code performs them, and as C5
\* states them.
CodeOrder ==
    <<"pace", "area", "wait", "dispatch", "fence", "draw", "present">>
ClaimedOrder ==
    <<"pace", "area", "wait", "dispatch", "draw", "fence", "present">>

Pos(order, e) == CHOOSE i \in 1 .. Len(order) : order[i] = e

InOrder(order, t) ==
    \A i, j \in 1 .. Len(t) :
        i < j => Pos(order, t[i]) < Pos(order, t[j])

\* C5, as stated: the steps of a frame occur in the order pacing, area
\* update, fence wait, dispatch, draw, fence creation, present.
C5_ClaimedStepOrder == InOrder(ClaimedOrder, trace)

\* C5, amended: the steps of a frame occur in the order pacing, area
\* update, fence wait, dispatch, fence creation, draw, present; a frame
\* with both shaders in which nothing throws or fails to activate performs
\* all of them, the wait included when a fence exists.
C5_StepOrder ==
    /\ InOrder(CodeOrder, trace)
    /\ (pc = "frame_end" /\ computeShader_ /\ particleShader_
           /\ "exception" \notin log /\ "activate_failed" \notin log) =>
         /\ {"pace", "area", "dispatch", "fence", "draw", "present"}
                \subseteq Steps
         /\ waitResult # "none" <=> "wait" \in Steps

\* A frame has performed all seven steps.
C5_Witness ==
    /\ pc = "frame_end"
    /\ trace = CodeOrder

\* C6: the roles are rotated only by the step that has waited on the
\* previous frame's fence, and the current slot and the drawn slot are
\* never written by a dispatch whose fence has not been waited on.
C6_RotationAfterWait ==
    /\ [][indices' # indices =>
            \/ pc = "poll"
            \/ pc = "fence" /\ computeFence_ /\ waitResult = "none"
                  /\ waitResult' \in {"SIGNALED", "TIMEOUT_EXPIRED"}]_vars
    /\ [](slotState[currentBufferIndex_] # "unwaited")
    /\ [](drawn # -1 => slotState[drawn] # "unwaited")

\* A frame draws the slot the previous frame's dispatch wrote, after the
\* wait on its fence.
C6_Witness ==
    /\ drawn # -1
    /\ slotState[drawn] \in {"SIGNALED", "TIMEOUT_EXPIRED"}
    /\ "wait" \in Steps

\* C7: every slot recurrently becomes current and recurrently becomes the
\* compute target: none stays out of either role for NUM_BUFFERS rotations.
C7_AllSlotsCycle ==
    \A s \in Slots :
        /\ sinceCurrent[s] < NUM_BUFFERS
        /\ sinceCompute[s] < NUM_BUFFERS

\* C8: when a frame leaves the pacing wait, at least targetFrameTime has
\* passed since the previous lastFrameTime.
C8_PacingLowerBound ==
    /\ interval # -1 => interval >= TargetFrameTime
    /\ pc = "area" => interval # -1

\* A frame has slept, spun and left the pacing wait exactly on time.
C8_Witness ==
    /\ pc = "area"
    /\ slept
    /\ spins > 0
    /\ interval = TargetFrameTime

\* C9: a frame that is late on entry neither sleeps nor spins.
C9_MissedFrameNoWait ==
    missedOnEntry =>
        /\ ~slept
        /\ spins = 0
        /\ pc \in {"pace_spin", "area"}

\* A late frame has left the pacing wait.
C9_Witness ==
    /\ missedOnEntry
    /\ pc = "area"

\* C10: two "Missed frame timing" logs are more than reportThreshold apart,
\* and only a frame that is late on entry writes one.
C10_MissedLogRateLimited ==
    /\ lastGap = -1 \/ lastGap > ReportThreshold
    /\ ("missed" \in log /\ pc \in {"pace_spin", "area"}) => missedOnEntry

\* A second log has been written.
C10_Witness ==
    /\ "missed" \in log
    /\ lastGap > ReportThreshold

\* C11: the statics targetFPS and targetFrameTime are set by the first call
\* of render and never change afterwards; the rate is the one the display
\* gave, or 60 Hz when it gave none or none above zero, and the interval is
\* 1e9 ns divided by that rate, to the nanosecond.
C11_TargetIntervalOnce ==
    /\ [][staticsInit => UNCHANGED statics]_vars
    /\ [](~staticsInit => targetFPS = 0 /\ targetFrameTime = 0)
    /\ [](staticsInit =>
            /\ displayRate > 0 => targetFPS = displayRate
            /\ displayRate <= 0 => targetFPS = 60
            /\ targetFrameTime * targetFPS > NsPerSecond - targetFPS
            /\ targetFrameTime * targetFPS < NsPerSecond + targetFPS)

\* A later frame of a run whose display gave no rate paces at 60 Hz.
C11_Witness ==
    /\ displayRate = 0
    /\ targetFrameTime = 16666667
    /\ waitResult # "none"

\* C12: under both sizing rules and on both sides of 90 Hz the final count
\* is particlesPerRow * particlesPerCol, and the loop places particle i at
\* row i / particlesPerRow, column i % particlesPerRow, a cell inside the
\* grid that no other index has.
C12_GridHoldsEveryParticle ==
    /\ grid.numParticles = grid.particlesPerRow * grid.particlesPerCol
    /\ grid.numParticles = FinalCount(grid.rule, grid.refreshRate)
    /\ grid.numParticles > 0
    /\ grid.i > 0 =>
          LET last == grid.i - 1
          IN  /\ grid.row = last \div grid.particlesPerRow
              /\ grid.col = last % grid.particlesPerRow
              /\ 0 <= grid.row /\ grid.row < grid.particlesPerCol
              /\ 0 <= grid.col /\ grid.col < grid.particlesPerRow
              /\ grid.row * grid.particlesPerRow + grid.col = last

\* ParticleSystem, at 90 Hz, has placed the first particle of its second
\* row.
C12_Witness ==
    /\ grid.rule = "ParticleSystem"
    /\ grid.refreshRate >= HighRefreshRate
    /\ grid.numParticles = 398763
    /\ grid.row = 1
    /\ grid.col = 0

\* C13: when initParticleSystem has set the slots up without a GL error,
\* then until the first dispatch every slot holds the same position data and
\* the same velocity data, the initial grid, in stores of the same size.
C13_SlotsStartIdentical ==
    (initResult = "ok" /\ \A s \in Slots : slotState[s] = "none") =>
        \A s, t \in Slots :
            /\ positionBuffers_[s] = positionBuffers_[t]
            /\ velocityBuffers_[s] = velocityBuffers_[t]
            /\ positionBuffers_[s].data = "initial"
            /\ velocityBuffers_[s].data = "initial"

\* The first frame of a renderer is about to dispatch on the slots as the
\* initialisation left them.
C13_Witness ==
    /\ initResult = "ok"
    /\ pc = "compute"
    /\ \A s \in Slots : slotState[s] = "none"
    /\ positionBuffers_[0].pairs = numParticles_

C15_UnboundUniformSkipsUpdate ==
    (gravityLoc = NoLocation \/ deltaTimeLoc = NoLocation) =>
        /\ "uniform_unbound" \in log
        /\ "dispatch" \notin Steps
        /\ copyCount = -1

\* C16: a renderer whose initRenderer failed in the EGL setup, in the check
\* for compute shaders, in the asset load or in a shader never dispatches, draws or creates a fence, and its
\* slot set is not initialised; a frame of it that runs to its end does
\* the pacing wait, the area update with the clear, and the present.
C16_FailedInitOnlyPresents ==
    initResult \in {"egl_failed", "no_compute", "asset_failed",
                    "compute_failed"} =>
        /\ ~(computeShader_ /\ particleShader_)
        /\ ~buffersInitialized_
        /\ "dispatch" \notin Steps /\ "draw" \notin Steps
        /\ "fence" \notin Steps /\ "wait" \notin Steps
        /\ drawn = -1 /\ inflight = <<>> /\ ~computeFence_
        /\ (pc = "frame_end" /\ "exception" \notin log) =>
              trace = <<"pace", "area", "present">>

\* A renderer without its compute shader has presented a frame.
C16_Witness ==
    /\ initResult = "compute_failed"
    /\ pc = "frame_end"
    /\ trace = <<"pace", "area", "present">>

\* C17: when an allocation of initParticleSystem has failed, the slot set is
\* not marked initialised and no frame dispatches or draws.
C17_AllocationAllOrNothing ==
    initResult = "alloc_failed" =>
        /\ ~buffersInitialized_
        /\ "dispatch" \notin Steps
        /\ "draw" \notin Steps

\* C18: when the Renderer is destroyed, its destructor has waited for the
\* outstanding GPU work and released the compute fence before it deletes
\* the position and velocity buffers and the VAOs: at the deletion no
\* dispatch is unfinished and no fence is left.
C18_TeardownSynchronized ==
    (teardown.done /\ teardown.deleted) =>
        (teardown.pending = 0 /\ ~teardown.fence)

\* C19: an exception thrown inside a frame never ends the frame loop: it is
\* caught at the end of the iteration with the renderer still installed and
\* the current slot different from the compute target, and from there the
\* loop goes back to polling events.
C19_ExceptionKeepsLoopRunning ==
    /\ [](("exception" \in log) =>
            /\ pc = "frame_end"
            /\ userData = "renderer"
            /\ currentBufferIndex_ # computeBufferIndex_)
    /\ [][pc = "frame_end" => (pc' = "poll" /\ userData' = userData)]_vars

\* A frame that had rotated the slots has thrown and was caught.
C19_Witness ==
    /\ pc = "frame_end"
    /\ "exception" \in log
    /\ "wait" \in Steps
    /\ currentBufferIndex_ = 1

\* C20: the gravity point is written only between frames: every write to
\* gravityPoint_ happens before the frame of that iteration has performed
\* its first step, so none follows the uniform upload of updateParticles
\* before the frame ends.
C20_GravityWrittenBetweenFrames ==
    [][gravityPoint_' # gravityPoint_ =>
          (trace = <<>> /\ pc \in {"poll", "input"})]_vars

\* A frame that dispatched with the gravity point its handleInput wrote.
C20_Witness ==
    /\ pc = "frame_end"
    /\ "dispatch" \in Steps
    /\ gravityLoc = DeadLocal
    /\ gravityPoint_ = WorldPoint(pointer, size_)
    /\ gravityPoint_ # Origin

C22_TargetIsOneStepAhead ==
    /\ ({"dispatch", "draw"} \subseteq sim.did) =>
          sim.gen[sim.comp] = sim.drawn + 1
    /\ (sim.before /\ "draw" \in sim.did) =>
          sim.drawn = sim.drawnBefore + 1

\* Two frames in a row have dispatched and drawn.
C22_Witness ==
    /\ sim.before
    /\ {"wait", "dispatch", "draw"} \subseteq sim.did
    /\ sim.drawn = 2

C23_GroupCountIsCeiling ==
    /\ ps.numGroups # 0 =>
          /\ ps.numGroups * ps.maxWorkGroupSize >= ps.numParticles_
          /\ (ps.numGroups - 1) * ps.maxWorkGroupSize < ps.numParticles_
    /\ ps.rendererGroups # 0 =>
          /\ ps.rendererGroups * WorkGroupSize >= ps.numParticles_
          /\ (ps.rendererGroups - 1) * WorkGroupSize < ps.numParticles_

\* Both dispatches were issued for a count that is no multiple of the
\* group size.
C23_Witness ==
    /\ ps.numParticles_ = 513
    /\ ps.maxWorkGroupSize = 4
    /\ ps.numGroups = 129
    /\ ps.rendererGroups = 3

\* C24: the work-group size ParticleSystem::update uses is the largest
\* power of two that does not exceed the maximum work-group size the GPU
\* reports for X.
C24_LargestPowerOfTwoWithinLimit ==
    ps.maxWorkGroupSize # 0 =>
        /\ \E k \in 0 .. 10 : ps.maxWorkGroupSize = 2 ^ k
        /\ ps.maxWorkGroupSize <= ps.limit
        /\ 2 * ps.maxWorkGroupSize > ps.limit

\* C25: the two indices of the double-buffered ParticleSystem are 0 and 1,
\* update reads one slot and writes the other, and the swap waits for the
\* render of the cycle: between an update and the render that follows it
\* currentBuffer_ is still the slot the update read.
C25_SwapAfterRender ==
    /\ ps.currentBuffer_ \in {0, 1}
    /\ ps.written # -1 =>
          /\ {ps.read, ps.written} = {0, 1}
          /\ ps.written = 1 - ps.read
    /\ ps.awaitingRender => ps.currentBuffer_ = ps.read

\* C26: the pacer calls clock_nanosleep only when the time remaining to the
\* deadline exceeds the guard band (spinThreshold), the duration it asks for
\* is the remaining time minus the guard band, so counted from the sample of
\* the clock the request ends one guard band before the deadline and never
\* later, and a frame that did not sleep asked for nothing.
C26_SleepStopsShortOfDeadline ==
    /\ slept <=> sleepNs > 0
    /\ ~slept => sleepNs = 0
    /\ pc = "sleeping" =>
          /\ slept
          /\ SleepTime(frameTime) > SpinThreshold
          /\ sleepNs = SleepTime(frameTime) - SpinThreshold
          /\ frameTime + sleepNs <= TargetFrameTime - SpinThreshold

\* A sleep has been requested and the clock has advanced during it.
C26_Witness ==
    /\ pc = "sleeping"
    /\ sleepNs > 0
    /\ frameAge > frameTime

\* C28: handleInput and render run only on the Renderer userData points to,
\* which was constructed by APP_CMD_INIT_WINDOW and is not deleted;
\* APP_CMD_TERM_WINDOW clears userData before it deletes the renderer; and at
\* most one Renderer is constructed and not deleted at any time, whatever
\* the sequence of INIT_WINDOW and TERM_WINDOW commands.
C28_OneLiveRenderer ==
    /\ life.at \notin {"poll", "polled", "delete"} =>
          /\ life.pRenderer = life.userData
          /\ life.pRenderer \in life.live
    /\ life.at = "delete" =>
          /\ life.userData = 0
          /\ life.pRenderer \in life.live
    /\ Cardinality(life.live) <= 1

\* C29 (as stated): with a clock that advances and a fence wait that
\* returns, every call of render leaves the pacing loop and reaches the
\* present, and the inner polling loop always ends, whatever the polls
\* return.
C29_EveryFrameReachesPresent ==
    /\ (life.at = "pace_entry") ~> (life.at = "area")
    /\ (life.at = "pace_entry") ~> (life.at = "present")
    /\ (life.at = "poll") ~> (life.at = "polled")

\* C29 (amended): with a clock that advances, every call of render leaves
\* the pacing loop; from there it reaches the present unless a shader call
\* throws, and then the exception is caught; either way the loop returns to
\* polling.  The inner polling loop ends provided that from some point on
\* the polls return only timeouts and wakes.
C29_FrameEndsAndLoopGoesOn ==
    /\ (life.at = "pace_entry") ~> (life.at = "area")
    /\ (life.at = "area") ~> (life.at \in {"present", "caught"})
    /\ (life.at \in {"present", "caught"}) ~> (life.at = "poll")
    /\ <>[](life.last \in {"none", "TIMEOUT", "WAKE"}) =>
          ((life.at = "poll") ~> (life.at = "polled"))

\* A second frame of a renderer has spun in the yield loop and reached the
\* present after a poll that was woken.
C29_Witness ==
    /\ life.at = "present"
    /\ life.spins > 0
    /\ life.last = "WAKE"
    /\ life.ran = life.pRenderer

\* C30: handleInput changes the gravity point only while it handles an event
\* whose masked action is DOWN or MOVE; and at every point of the batch the
\* gravity point is the world point of the pointer of the last DOWN or MOVE
\* event handled so far, or what it was on entry when there was none, so
\* UP, CANCEL, POINTER_DOWN, POINTER_UP and other actions leave it alone.
C30_LastDownOrMoveWins ==
    /\ [](LET events == inputBuffer.motionEvents
              writes == {j \in 1 .. inputBuffer.i :
                            events[j].action \in {"DOWN", "MOVE"}}
          IN  inputBuffer.gravityPoint_ =
                IF writes = {} THEN inputBuffer.entry
                ELSE LET last == CHOOSE j \in writes :
                                    \A k \in writes : k <= j
                     IN  WorldPoint(events[last].at, inputBuffer.size_))
    /\ [][inputBuffer.gravityPoint_' # inputBuffer.gravityPoint_ =>
            /\ inputBuffer.i' = inputBuffer.i + 1
            /\ inputBuffer.motionEvents[inputBuffer.i'].action
                  \in {"DOWN", "MOVE"}]_vars

\* A batch of a DOWN and a MOVE at another place, followed by nothing, has
\* been handled, and the gravity point is where the MOVE was.
C30_Witness ==
    /\ inputBuffer.cleared
    /\ Len(inputBuffer.motionEvents) = 2
    /\ inputBuffer.motionEvents[1].action = "DOWN"
    /\ inputBuffer.motionEvents[2].action = "MOVE"
    /\ inputBuffer.gravityPoint_
          = WorldPoint(inputBuffer.motionEvents[2].at, inputBuffer.size_)
    /\ inputBuffer.gravityPoint_
          # WorldPoint(inputBuffer.motionEvents[1].at, inputBuffer.size_)
    /\ inputBuffer.gravityPoint_ # inputBuffer.entry
====
